---- MODULE Spec2Model ----
(***************************************************************************)
(* Read-through TTL cache and fuzzy entity resolvers of the Base hiring    *)
(* assistant (src/server.py, src/app.py).  The two files hold the same     *)
(* helper functions; line numbers in comments refer to src/server.py       *)
(* unless app.py is named.                                                 *)
(***************************************************************************)
EXTENDS Integers, Sequences, FiniteSets, TLC

VARIABLES
    now,              \* value time() returns at the next call
    cache,            \* _cache: kind -> [data, timestamp]
    ACCOUNT_API_KEY,  \* whether the optional account credential is configured
    pool,             \* names held by the upstream the resolvers query
    pc,               \* "idle": no call in progress, "done": a call has returned
    last,             \* what the last call did and returned
    lastFailed,       \* history: kinds whose latest call failed upstream on a miss
    fetchedAt         \* history: kind -> when the request that produced the stored
                      \* data was sent, the earliest the data can have been read

vars == <<now, cache, ACCOUNT_API_KEY, pool, pc, last, lastFailed, fetchedAt>>

----------------------------------------------------------------------------
(* Configuration and bounds *)

CACHE_TTL == 300

\* the clock advances in steps of half a TTL, up to MaxTime
TickStep == CACHE_TTL \div 2
MaxTime == 450

JD_MIN_LEN == 10

\* BASE_API_KEY is mandatory: the module raises at import when it is unset
BASE_API_KEY == "key"

Kinds == {"openings", "job_descriptions", "users_info"}

\* Python's None / a present value, for a cache entry's data
None == [some |-> FALSE, val |-> <<>>]
Some(v) == [some |-> TRUE, val |-> v]

Entry(d, t) == [data |-> d, timestamp |-> t]

InitCache == [k \in Kinds |-> Entry(None, 0)]

----------------------------------------------------------------------------
(* Upstream responses of the opening list and the user directory *)

Content(ws, chars) == [ws |-> ws, chars |-> chars]

Opening(id, name, status, content) ==
    [id |-> id, name |-> name, status |-> status, content |-> content]

ListBodies ==
    { [has_openings |-> FALSE, openings |-> <<>>],
      [has_openings |-> TRUE,
       openings |-> << Opening("1", <<"Backend", "Engineer">>, "10", Content(0, 40)),
                       Opening("2", <<"Backend", "Developer">>, "5", Content(0, 40)),
                       Opening("3", <<"Sales">>, "10", Content(0, 5)) >>],
      [has_openings |-> TRUE,
       openings |-> << Opening("4", <<"Sales">>, "10", Content(10, 3)) >>] }

User(username, name, title) == [username |-> username, name |-> name, title |-> title]

UsersBodies ==
    { [has_users |-> FALSE, users |-> <<>>],
      [has_users |-> TRUE,
       users |-> << User("hoang", "Hoang Tran", "Dev"), User("", "Ghost", "QA"),
                    User("an", "An", "") >>],
      [has_users |-> TRUE, users |-> << User("an", "An", "QA") >>] }

\* a failed request (RequestException, or any exception while reading the body)
ErrResponse == [err |-> TRUE, body |-> [has_openings |-> FALSE, openings |-> <<>>]]
OkResponse(b) == [err |-> FALSE, body |-> b]

ListResponses == {ErrResponse} \cup {OkResponse(b) : b \in ListBodies}

UsersErrResponse == [err |-> TRUE, body |-> [has_users |-> FALSE, users |-> <<>>]]
UsersResponses == {UsersErrResponse} \cup {OkResponse(b) : b \in UsersBodies}

----------------------------------------------------------------------------
(* Shaping of the fetched collections *)

\* html -> text: the text has ws + chars characters, chars of them after strip()
TextLen(content) == content.ws + content.chars
StripLen(content) == content.chars

\* mutant: every opening counts as active
IsActive_Any(opening) == TRUE

\* if opening.get('status') == '10'
IsActive(opening) == opening.status = "10"

ShapeOpenings(body) ==
    LET openings == IF body.has_openings THEN body.openings ELSE <<>>
        active == SelectSeq(openings, IsActive)
    IN [i \in 1..Len(active) |-> [id |-> active[i].id, name |-> active[i].name]]

HasJD(opening) == IsActive(opening) /\ TextLen(opening.content) >= JD_MIN_LEN

ShapeJobDescriptions(body) ==
    LET kept == SelectSeq(body.openings, HasJD)
    IN [i \in 1..Len(kept) |->
            [id |-> kept[i].id, name |-> kept[i].name,
             job_description |-> StripLen(kept[i].content),
             html_content |-> kept[i].content]]

UserInfo(user) ==
    [username |-> user.username, name |-> user.name,
     title |-> IF user.name = "Hoang Tran" THEN "CEO" ELSE user.title]

\* dict assignment: a later record of a username replaces the earlier value in place
RECURSIVE PutUser(_, _)
PutUser(mapping, info) ==
    IF mapping = <<>> THEN <<info>>
    ELSE IF Head(mapping).username = info.username THEN <<info>> \o Tail(mapping)
    ELSE <<Head(mapping)>> \o PutUser(Tail(mapping), info)

RECURSIVE BuildUsers(_, _)
BuildUsers(users, mapping) ==
    IF users = <<>> THEN mapping
    ELSE BuildUsers(Tail(users),
                    IF Head(users).username # ""
                    THEN PutUser(mapping, UserInfo(Head(users)))
                    ELSE mapping)

ShapeUsers(body) == IF body.has_users THEN BuildUsers(body.users, <<>>) ELSE <<>>

----------------------------------------------------------------------------
(* The cache store *)

\* mutant: the age comparison is inverted
IsFresh_Inverted(entry, t) == entry.data.some /\ t - entry.timestamp > CACHE_TTL

\* mutant: an entry stays fresh for twice the TTL
IsFresh_TwiceTTL(entry, t) == entry.data.some /\ t - entry.timestamp < 2 * CACHE_TTL

\* data is not None and current_time - timestamp < CACHE_TTL
IsFresh(entry, t) == entry.data.some /\ t - entry.timestamp < CACHE_TTL

\* mutant: the cache is consulted even when the caller asked to bypass it
CacheHit_IgnoresBypass(c, kind, t, use_cache) == IsFresh(c[kind], t)

CacheHit(c, kind, t, use_cache) == use_cache /\ IsFresh(c[kind], t)

\* mutant: the data is replaced and the old timestamp is kept
Store_KeepsTimestamp(c, kind, use_cache, d, t) ==
    IF use_cache THEN [c EXCEPT ![kind].data = Some(d)] ELSE c

\* mutant: the entry is stamped with the epoch instead of current_time
Store_Unstamped(c, kind, use_cache, d, t) ==
    IF use_cache THEN [c EXCEPT ![kind] = Entry(Some(d), 0)] ELSE c

\* mutant: a write of one kind invalidates the entries of the other kinds
Store_Invalidating(c, kind, use_cache, d, t) ==
    IF use_cache
    THEN [k \in Kinds |-> IF k = kind THEN Entry(Some(d), t) ELSE Entry(None, 0)]
    ELSE c

Store_IfNewer(c, kind, use_cache, d, t) ==
    IF use_cache /\ (~c[kind].data.some \/ c[kind].timestamp <= t)
    THEN [c EXCEPT ![kind] = Entry(Some(d), t)] ELSE c

\* _cache[kind] = {'data': d, 'timestamp': current_time}, on a caching call
Store(c, kind, use_cache, d, t) ==
    IF use_cache THEN [c EXCEPT ![kind] = Entry(Some(d), t)] ELSE c

\* the reply makes the call write the entry of its kind
Writes(kind, use_cache, resp) ==
    /\ use_cache
    /\ ~resp.err
    /\ kind = "job_descriptions" => resp.body.has_openings

\* the request of a call that writes the entry was sent at time sent
RecordFetch(f, kind, wrote, sent) == IF wrote THEN [f EXCEPT ![kind] = sent] ELSE f

\* what a fetcher call does: the cache after it, how it ended, what it returned
\* and how many upstream requests it made
Done(c, outcome, ret, fetched) ==
    [cache |-> c, outcome |-> outcome, ret |-> ret, fetched |-> fetched]

\* the request failed: the exception leaves the function before any cache write
\* mutant: a failed request invalidates the entry
OnFetchError_Clears(c, kind) ==
    [cache |-> [c EXCEPT ![kind] = [data |-> [some |-> FALSE, val |-> <<>>],
                                    timestamp |-> 0]],
     outcome |-> "error", ret |-> <<>>, fetched |-> 1]

\* mutant: a failed request falls back to the stored snapshot
OnFetchError_Stale(c, kind) ==
    IF c[kind].data.some
    THEN [cache |-> c, outcome |-> "hit", ret |-> c[kind].data.val, fetched |-> 1]
    ELSE [cache |-> c, outcome |-> "error", ret |-> <<>>, fetched |-> 1]

OnFetchError(c, kind) == Done(c, "error", <<>>, 1)

OnUsersFetchError_Raises(c) == Done(c, "error", <<>>, 1)

\* get_users_info swallows the exception and returns {}
OnUsersFetchError(c) == Done(c, "empty", <<>>, 1)

\* get_base_openings from the upstream request on: request, shape, store, return
RefreshBaseOpenings(c, t, use_cache, resp) ==
    IF resp.err THEN OnFetchError(c, "openings")
    ELSE LET filtered_openings == ShapeOpenings(resp.body)
         IN Done(Store(c, "openings", use_cache, filtered_openings, t),
                 "fresh", filtered_openings, 1)

get_base_openings(c, t, api_key, use_cache, resp) ==
    IF api_key = "" THEN Done(c, "error", <<>>, 0)
    ELSE IF CacheHit(c, "openings", t, use_cache)
    THEN Done(c, "hit", c["openings"].data.val, 0)
    ELSE RefreshBaseOpenings(c, t, use_cache, resp)

\* get_job_descriptions from the upstream request on
RefreshJobDescriptions(c, t, use_cache, resp) ==
    IF resp.err THEN OnFetchError(c, "job_descriptions")
    ELSE IF resp.body.has_openings
    THEN LET results == ShapeJobDescriptions(resp.body)
         IN Done(Store(c, "job_descriptions", use_cache, results, t),
                 "fresh", results, 1)
    ELSE Done(c, "fresh", <<>>, 1)

get_job_descriptions(c, t, api_key, use_cache, resp) ==
    IF api_key = "" THEN Done(c, "error", <<>>, 0)
    ELSE IF CacheHit(c, "job_descriptions", t, use_cache)
    THEN Done(c, "hit", c["job_descriptions"].data.val, 0)
    ELSE RefreshJobDescriptions(c, t, use_cache, resp)

\* get_users_info from the upstream request on
RefreshUsersInfo(c, t, use_cache, resp) ==
    IF resp.err THEN OnUsersFetchError(c)
    ELSE LET username_to_info == ShapeUsers(resp.body)
         IN Done(Store(c, "users_info", use_cache, username_to_info, t),
                 "fresh", username_to_info, 1)

get_users_info(c, t, account_key, use_cache, resp) ==
    IF ~account_key THEN Done(c, "empty", <<>>, 0)
    ELSE IF CacheHit(c, "users_info", t, use_cache)
    THEN Done(c, "hit", c["users_info"].data.val, 0)
    ELSE RefreshUsersInfo(c, t, use_cache, resp)

----------------------------------------------------------------------------
(* State machine of the fetchers *)

NoCall == [op |-> "none"]

FetcherResult(kind, use_cache, resp, r) ==
    [op |-> "fetch", kind |-> kind, use_cache |-> use_cache, at |-> now,
     upstream_err |-> resp.err, outcome |-> r.outcome, ret |-> r.ret,
     fetched |-> r.fetched, retry |-> kind \in lastFailed]

\* an upstream failure met on a miss: the request was made and it failed
FailedOnMiss(use_cache, r, resp) == use_cache /\ r.fetched = 1 /\ resp.err

Finish(kind, use_cache, resp, r) ==
    /\ pc = "idle"
    /\ pc' = "done"
    /\ cache' = r.cache
    /\ last' = FetcherResult(kind, use_cache, resp, r)
    /\ lastFailed' = IF FailedOnMiss(use_cache, r, resp)
                     THEN lastFailed \cup {kind} ELSE lastFailed \ {kind}
    /\ fetchedAt' = RecordFetch(fetchedAt, kind,
                                r.fetched = 1 /\ Writes(kind, use_cache, resp), now)
    /\ UNCHANGED <<now, ACCOUNT_API_KEY, pool>>

CallGetBaseOpenings(use_cache, resp) ==
    Finish("openings", use_cache, resp,
           get_base_openings(cache, now, BASE_API_KEY, use_cache, resp))

CallGetJobDescriptions(use_cache, resp) ==
    Finish("job_descriptions", use_cache, resp,
           get_job_descriptions(cache, now, BASE_API_KEY, use_cache, resp))

CallGetUsersInfo(use_cache, resp) ==
    Finish("users_info", use_cache, resp,
           get_users_info(cache, now, ACCOUNT_API_KEY, use_cache, resp))

Return ==
    /\ pc = "done"
    /\ pc' = "idle"
    /\ last' = NoCall
    /\ UNCHANGED <<now, cache, ACCOUNT_API_KEY, pool, lastFailed, fetchedAt>>

Tick ==
    /\ pc = "idle"
    /\ now + TickStep <= MaxTime
    /\ now' = now + TickStep
    /\ UNCHANGED <<cache, ACCOUNT_API_KEY, pool, pc, last, lastFailed, fetchedAt>>

Init ==
    /\ now = 0
    /\ cache = InitCache
    /\ ACCOUNT_API_KEY \in BOOLEAN
    /\ pool = <<>>
    /\ pc = "idle"
    /\ last = NoCall
    /\ lastFailed = {}
    /\ fetchedAt = [k \in Kinds |-> 0]

Next ==
    \/ Tick
    \/ Return
    \/ \E use_cache \in BOOLEAN, resp \in ListResponses :
          CallGetBaseOpenings(use_cache, resp)
    \/ \E use_cache \in BOOLEAN, resp \in ListResponses :
          CallGetJobDescriptions(use_cache, resp)
    \/ \E use_cache \in BOOLEAN, resp \in UsersResponses :
          CallGetUsersInfo(use_cache, resp)

Spec == Init /\ [][Next]_vars

----------------------------------------------------------------------------
(* Names, and the similarity scorer (TfidfVectorizer + cosine_similarity)    *)
(*                                                                          *)
(* A name is the sequence of its words.  TfidfVectorizer() lower-cases a    *)
(* text, keeps the words of two or more characters, weighs a word by        *)
(* tf * (ln((1 + n) / (1 + df)) + 1) and the cosine compares directions.    *)
(* Weights are kept in tenths and a score is kept exact, as the square of   *)
(* the cosine written as a reduced fraction <<num, den>>.                   *)

MaxPool == 2

Names == { <<>>, <<"Backend">>, <<"Backend", "Developer">>, <<"2">> }

Queries == { <<>>, <<"Backend">>, <<"backend">>, <<"Developer">>,
             <<"backend", "developer">>, <<"2">> }

\* similarity thresholds 0.5 (the default) and 1.0, as fractions
Thresholds == { <<1, 2>>, <<1, 1>> }

Pools == UNION { [1..n -> Names] : n \in 0..MaxPool }

\* ids the upstream gives to the records of a list, by position
Ids == <<"2", "1", "3", "4", "5">>

Range(f) == { f[i] : i \in DOMAIN f }

Lower(w) ==
    CASE w = "Backend" -> "backend"
      [] w = "Developer" -> "developer"
      [] w = "Offered" -> "offered"
      [] w = "Offer" -> "offer"
      [] w = "Sent" -> "sent"
      [] w = "Made" -> "made"
      [] OTHER -> w

\* token_pattern (?u)\b\w\w+\b: a word of one character is no token
IsToken(w) == w \notin {"2"}

Tokenize(text) ==
    SelectSeq([i \in 1..Len(text) |-> Lower(text[i])], IsToken)

TokenSet(text) == Range(Tokenize(text))

\* the vocabulary is fitted on the pool only
Vocabulary(docs) == UNION { TokenSet(docs[i]) : i \in DOMAIN docs }

Tf(t, toks) == Cardinality({ i \in DOMAIN toks : toks[i] = t })

\* 10 * ln(k), rounded, for k = 1..8
LnTenths == <<0, 7, 11, 14, 16, 18, 19, 21>>

\* smooth idf of every word of the vocabulary, in tenths
IdfTable(docs) ==
    LET sets == [i \in DOMAIN docs |-> TokenSet(docs[i])]
        V == UNION Range(sets)
    IN [t \in V |->
          LnTenths[1 + Len(docs)]
            - LnTenths[1 + Cardinality({ i \in DOMAIN docs : t \in sets[i] })] + 10]

\* the tf-idf vector of a text over the fitted vocabulary (before normalisation)
TfIdfVector(text, idf) ==
    LET toks == Tokenize(text)
    IN [t \in DOMAIN idf |-> Tf(t, toks) * idf[t]]

\* every token a name or a query of the model can hold, in a fixed order
TokenList == <<"backend", "developer", "offered", "offer", "sent", "made">>

RECURSIVE DotUpTo(_, _, _)
DotUpTo(n, u, v) ==
    IF n = 0 THEN 0
    ELSE (IF TokenList[n] \in DOMAIN u THEN u[TokenList[n]] * v[TokenList[n]] ELSE 0)
         + DotUpTo(n - 1, u, v)

\* dot product of two vectors over the same vocabulary
Dot(u, v) == DotUpTo(Len(TokenList), u, v)

RECURSIVE GCD(_, _)
GCD(a, b) == IF b = 0 THEN a ELSE GCD(b, a % b)

Zero == <<0, 1>>
One == <<1, 1>>

Fraction(num, den) == LET g == GCD(num, den) IN <<num \div g, den \div g>>

\* cosine_similarity of the query row and one row of the pool: the dot product
\* and the two squared norms
Similarity(q, d) == [dot |-> Dot(q, d), nq |-> Dot(q, q), nd |-> Dot(d, d)]

\* float(similarity): the squared cosine as a fraction; a zero vector scores 0
Score(sim) ==
    IF sim.nq = 0 \/ sim.nd = 0 THEN Zero
    ELSE Fraction(sim.dot * sim.dot, sim.nq * sim.nd)

\* a < b for two similarities of the same query (equal nq)
SimLess(a, b) ==
    IF a.nd = 0 \/ a.nq = 0 THEN b.nd # 0 /\ b.nq # 0 /\ b.dot > 0
    ELSE IF b.nd = 0 THEN FALSE
    ELSE a.dot * a.dot * b.nd < b.dot * b.dot * a.nd

\* score >= threshold, the threshold being the fraction thr[1] / thr[2]
ScoreAtLeast(score, thr) == score[1] * thr[2] * thr[2] >= thr[1] * thr[1] * score[2]

\* fit_transform raises ValueError on an empty vocabulary
VectorizerFails(docs) == Vocabulary(docs) = {}

similarities(query, docs) ==
    LET idf == IdfTable(docs)
        q == TfIdfVector(query, idf)
    IN [i \in DOMAIN docs |-> Similarity(q, TfIdfVector(docs[i], idf))]

\* mutant: the last index of the maximum
argmax_Last(sims) ==
    CHOOSE i \in DOMAIN sims :
        /\ \A j \in DOMAIN sims : ~SimLess(sims[i], sims[j])
        /\ \A j \in DOMAIN sims : j > i => SimLess(sims[j], sims[i])

\* np.argmax: the first index of the maximum
argmax(sims) ==
    CHOOSE i \in DOMAIN sims :
        /\ \A j \in DOMAIN sims : ~SimLess(sims[i], sims[j])
        /\ \A j \in DOMAIN sims : j < i => SimLess(sims[j], sims[i])

----------------------------------------------------------------------------
(* The resolvers *)

NoId == "None"

\* score is the exact value of the similarity; ulps is how far the float the
\* code reports lies above it, in units of 2^-52 (the spacing of floats at 1.0)
Resolved(id, name, score, path, scored) ==
    [id |-> id, name |-> name, score |-> score, path |-> path, scored |-> scored,
     ulps |-> 0]

Rejected_One(path) == Resolved(NoId, None, One, path, FALSE)

\* return None, 0.0
Rejected(path) == Resolved(NoId, None, Zero, path, FALSE)

FirstOf_Last(S) == IF S = {} THEN 0 ELSE CHOOSE i \in S : \A j \in S : i >= j

\* next(...): the first index of a set of matching indexes, 0 when there is none
FirstOf(S) == IF S = {} THEN 0 ELSE CHOOSE i \in S : \A j \in S : i <= j

ExactOpening_NameFirst(openings, query_name) ==
    LET by_name == { i \in DOMAIN openings : openings[i].name = query_name }
        by_id == { i \in DOMAIN openings : <<openings[i].id>> = query_name }
    IN IF by_name # {} THEN FirstOf(by_name) ELSE FirstOf(by_id)

\* next(op for op in openings if op['id'] == query_name or op['name'] == query_name)
ExactOpening(openings, query_name) ==
    FirstOf({ i \in DOMAIN openings :
                <<openings[i].id>> = query_name \/ openings[i].name = query_name })

ExactByName(entities, query) ==
    FirstOf({ i \in DOMAIN entities : entities[i].name = query })

Accepts_Default(best_similarity, similarity_threshold) ==
    ScoreAtLeast(best_similarity, <<1, 2>>)

Accepts_Any(best_similarity, similarity_threshold) == best_similarity # Zero

Accepts_Inverted(best_similarity, similarity_threshold) ==
    best_similarity[1] * similarity_threshold[2] * similarity_threshold[2]
      <= similarity_threshold[1] * similarity_threshold[1] * best_similarity[2]

Accepts_Strict(best_similarity, similarity_threshold) ==
    best_similarity[1] * similarity_threshold[2] * similarity_threshold[2]
      > similarity_threshold[1] * similarity_threshold[1] * best_similarity[2]

\* if best_similarity >= similarity_threshold
Accepts(best_similarity, similarity_threshold) ==
    ScoreAtLeast(best_similarity, similarity_threshold)

\* The cosine of a tf-idf row with an equal query row, in IEEE-754 doubles
\* rounded to nearest: both rows are l2-normalised by the vectorizer and again
\* by cosine_similarity, then multiplied and summed.  With one non-zero weight
\* the result is 1.0; with two it is 1.0 + 2^-52 when the weights are equal or
\* are 1.0 and ln(3/2) + 1, and 1.0 for the other weights of the model.  The
\* names of the model have at most two tokens.
FloatUlps(weights) ==
    LET nonzero == { t \in DOMAIN weights : weights[t] # 0 }
        values == { weights[t] : t \in nonzero }
    IN IF Cardinality(nonzero) = 2 /\ (Cardinality(values) = 1 \/ values = {10, 14})
       THEN 1 ELSE 0

\* float(best_similarity): a score of exactly 1 carries the rounding of the float
Rounded(r, docs, best_idx) ==
    IF r.score = One
    THEN [r EXCEPT !.ulps = FloatUlps(TfIdfVector(docs[best_idx], IdfTable(docs)))]
    ELSE r

HasName(entity) == entity.name # <<>>

\* [e['name'] for e in entities]
NamesOf(entities) == [i \in DOMAIN entities |-> entities[i].name]

\* mutant: the best index is looked up in the list that still holds the
\* entities without a name
WithNames_All(entities) == entities

\* [e for e in entities if e.get('name')]: the list the best index is looked up in
WithNames(entities) == SelectSeq(entities, HasName)

\* the fuzzy step: vectorize the names docs, take the best, apply the threshold
\* and look the best index up in entities
FuzzyMatch(docs, entities, query, similarity_threshold) ==
    IF VectorizerFails(docs) THEN Resolved(NoId, None, Zero, "vector_error", TRUE)
    ELSE LET sims == similarities(query, docs)
             best_idx == argmax(sims)
             best_similarity == Score(sims[best_idx])
         IN Rounded(IF Accepts(best_similarity, similarity_threshold)
                       /\ best_idx <= Len(entities)
                    THEN Resolved(entities[best_idx].id, Some(entities[best_idx].name),
                                  best_similarity, "fuzzy_accept", TRUE)
                    ELSE Resolved(NoId, None, best_similarity, "fuzzy_reject", TRUE),
                    docs, best_idx)

\* find_opening_id_by_name once get_base_openings has returned the list
ResolveOpening(openings, query_name, similarity_threshold) ==
    IF openings = <<>> THEN Rejected("empty")
    ELSE LET exact_match == ExactOpening(openings, query_name)
         IN IF exact_match # 0
            THEN Resolved(openings[exact_match].id, Some(openings[exact_match].name),
                          One, "exact", FALSE)
            ELSE FuzzyMatch(NamesOf(openings), openings, query_name,
                            similarity_threshold)

\* get_base_openings raises outside the try block: the exception leaves the resolver
find_opening_id_by_name(c, t, query_name, api_key, similarity_threshold, resp) ==
    LET fetch == get_base_openings(c, t, api_key, TRUE, resp)
    IN [cache |-> fetch.cache, fetched |-> fetch.fetched,
        entities |-> IF fetch.outcome = "error" THEN <<>> ELSE fetch.ret,
        res |-> IF fetch.outcome = "error"
                THEN Rejected("raise")
                ELSE ResolveOpening(fetch.ret, query_name, similarity_threshold)]

InStages_Any(filter_stages, candidate) == TRUE

\* if stage_name and stage_name in filter_stages
InStages(filter_stages, candidate) ==
    candidate.stage_name # "" /\ candidate.stage_name \in filter_stages

FilterStages(candidates, filter_stages) ==
    LET InFilter(c) == InStages(filter_stages, c)
    IN IF filter_stages # {} THEN SelectSeq(candidates, InFilter) ELSE candidates

\* the function returns (id, score): the matched name is not part of the result
WithoutName(r) == [r EXCEPT !.name = None]

find_candidate_by_name_in_opening(candidate_name, opening_id, similarity_threshold, filter_stages, resp) ==
    IF candidate_name = <<>> \/ opening_id = "" THEN Rejected("guard")
    ELSE IF resp.err THEN Rejected("upstream_error")
    ELSE IF resp.body.candidates = <<>> THEN Rejected("empty")
    ELSE LET filtered_candidates == FilterStages(resp.body.candidates, filter_stages)
             candidate_names == NamesOf(SelectSeq(filtered_candidates, HasName))
             candidates_with_names == WithNames(filtered_candidates)
             exact_match == ExactByName(filtered_candidates, candidate_name)
         IN IF filtered_candidates = <<>> THEN Rejected("empty")
            ELSE IF candidate_names = <<>> THEN Rejected("empty")
            ELSE IF exact_match # 0
            THEN Resolved(filtered_candidates[exact_match].id, None, One, "exact", FALSE)
            ELSE WithoutName(FuzzyMatch(candidate_names, candidates_with_names,
                                        candidate_name, similarity_threshold))

\* a test record's test_name is kept in the field name
find_test_by_name(test_results, test_name_query, similarity_threshold) ==
    IF test_results = <<>> THEN Rejected("empty")
    ELSE IF test_name_query = <<>> THEN Rejected("guard")
    ELSE LET exact_match == ExactByName(test_results, test_name_query)
             test_names == NamesOf(SelectSeq(test_results, HasName))
             tests_with_names == WithNames(test_results)
         IN IF exact_match # 0
            THEN Resolved(test_results[exact_match].id,
                          Some(test_results[exact_match].name), One, "exact", FALSE)
            ELSE IF test_names = <<>> THEN Rejected("empty")
            ELSE FuzzyMatch(test_names, tests_with_names, test_name_query,
                            similarity_threshold)

----------------------------------------------------------------------------
(* State machine of the resolvers: the upstream holds the names of pool *)

Stages == {"Offered", "Applied"}

\* filter_stages=None, and the allow-list of the offer-letter lookup
StageFilters == { {}, {"Offered", "Hired"} }

OpeningsOf(names) ==
    [i \in DOMAIN names |-> Opening(Ids[i], names[i], "10", Content(0, 40))]

CandidatesOf(names, stages) ==
    [i \in DOMAIN names |-> [id |-> Ids[i], name |-> names[i], stage_name |-> stages[i]]]

TestsOf(names) == [i \in DOMAIN names |-> [id |-> Ids[i], name |-> names[i]]]

\* an opening that is not active (status other than '10')
InactiveOpening == Opening("9", <<"Backend">>, "5", Content(0, 40))

\* the opening list of the upstream: the openings of pool, all active, and the
\* inactive opening in second place
UpstreamOpenings(names) ==
    LET active == OpeningsOf(names)
    IN IF active = <<>> THEN <<InactiveOpening>>
       ELSE <<Head(active), InactiveOpening>> \o Tail(active)

OpeningListResponses ==
    { ErrResponse,
      OkResponse([has_openings |-> TRUE, openings |-> UpstreamOpenings(pool)]) }

CandidateErrResponse == [err |-> TRUE, body |-> [candidates |-> <<>>]]

CandidateListResponses ==
    { CandidateErrResponse } \cup
    { OkResponse([candidates |-> CandidatesOf(pool, stages)]) :
        stages \in [DOMAIN pool -> Stages] }

\* upstream: the records the upstream replied with; entities: the pool the
\* exact and the fuzzy step work on
ResolverResult(resolver, query, threshold, filter_stages, upstream, entities, fetched, r) ==
    [op |-> "resolve", resolver |-> resolver, query |-> query,
     threshold |-> threshold, filter_stages |-> filter_stages,
     upstream |-> upstream, entities |-> entities, fetched |-> fetched,
     id |-> r.id, name |-> r.name, score |-> r.score, path |-> r.path,
     scored |-> r.scored, ulps |-> r.ulps]

CallFindOpeningIdByName(query_name, similarity_threshold, resp) ==
    LET r == find_opening_id_by_name(cache, now, query_name, BASE_API_KEY,
                                     similarity_threshold, resp)
    IN /\ pc = "idle"
       /\ pc' = "done"
       /\ cache' = r.cache
       /\ last' = ResolverResult("opening", query_name, similarity_threshold, {},
                                 UpstreamOpenings(pool), r.entities, r.fetched, r.res)
       /\ lastFailed' = IF r.fetched = 1 /\ resp.err
                        THEN lastFailed \cup {"openings"}
                        ELSE lastFailed \ {"openings"}
       /\ fetchedAt' = RecordFetch(fetchedAt, "openings",
                                   r.fetched = 1 /\ Writes("openings", TRUE, resp), now)
       /\ UNCHANGED <<now, ACCOUNT_API_KEY, pool>>

\* the pool a candidate lookup is about: the candidates of the opening, stage-filtered
CandidatePool(opening_id, filter_stages, resp) ==
    IF opening_id = "" \/ resp.err THEN <<>>
    ELSE FilterStages(resp.body.candidates, filter_stages)

CallFindCandidateByNameInOpening(candidate_name, opening_id, similarity_threshold, filter_stages, resp) ==
    LET r == find_candidate_by_name_in_opening(candidate_name, opening_id,
                                               similarity_threshold, filter_stages, resp)
    IN /\ pc = "idle"
       /\ pc' = "done"
       /\ last' = ResolverResult("candidate", candidate_name, similarity_threshold,
                                 filter_stages,
                                 CandidatePool(opening_id, {}, resp),
                                 CandidatePool(opening_id, filter_stages, resp),
                                 IF r.path = "guard" THEN 0 ELSE 1, r)
       /\ UNCHANGED <<now, cache, ACCOUNT_API_KEY, pool, lastFailed, fetchedAt>>

CallFindTestByName(test_results, test_name_query, similarity_threshold) ==
    LET r == find_test_by_name(test_results, test_name_query, similarity_threshold)
    IN /\ pc = "idle"
       /\ pc' = "done"
       /\ last' = ResolverResult("test", test_name_query, similarity_threshold, {},
                                 test_results, test_results, 0, r)
       /\ UNCHANGED <<now, cache, ACCOUNT_API_KEY, pool, lastFailed, fetchedAt>>

----------------------------------------------------------------------------
(* get_candidates_for_opening: the stage step and the recency cut *)

\* if len(filtered_candidates) > 10
RECENT_LIMIT == 10

\* if best_similarity >= 0.3
STAGE_THRESHOLD == <<3, 10>>

\* stage names of the upstream; "" is a candidate without stage_name
StageNames == {"", "Offered", "Offer Sent", "Offer Made", "2"}

\* stage_name=None, and the stage names a caller asks for
NoStageName == [some |-> FALSE, val |-> ""]

StageQueries ==
    {NoStageName} \cup {Some(s) : s \in {"", "Offered", "offered", "Offer", "2"}}

\* the words of a stage name
Words(s) ==
    CASE s = "" -> <<>>
      [] s = "Offer Sent" -> <<"Offer", "Sent">>
      [] s = "Offer Made" -> <<"Offer", "Made">>
      [] OTHER -> <<s>>

\* a candidate of the list reply; recent: last_update is within the last 7 days
StageCandidate(id, stage_name, recent) ==
    [id |-> id, stage_name |-> stage_name, recent |-> recent]

\* replies with up to MaxPool candidates, and two with RECENT_LIMIT + 1 of them
StageCandidateLists ==
    { [i \in DOMAIN stages |-> StageCandidate(i, stages[i], i = 1)] :
        stages \in UNION { [1..n -> StageNames] : n \in 0..MaxPool } }
    \cup { [i \in 1..(RECENT_LIMIT + 1) |-> StageCandidate(i, "Offered", i <= 2)],
           [i \in 1..(RECENT_LIMIT + 1) |->
               StageCandidate(i, IF i = 1 THEN "Offer Sent" ELSE "Offered", i <= 2)] }

StageListResponses ==
    { CandidateErrResponse } \cup { OkResponse([candidates |-> cs]) : cs \in StageCandidateLists }

\* the distinct non-empty stage names of the candidates
ObservedStages(candidates) ==
    { candidates[i].stage_name : i \in DOMAIN candidates } \ {""}

\* list(set(...)): the distinct stage names in an order the set decides
Orderings(S) == { f \in [1..Cardinality(S) -> S] : Range(f) = S }

\* one stage to filter by, or no stage filter
StageChoice(filter, stage, score, path) ==
    [filter |-> filter, stage |-> stage, score |-> score, path |-> path]

NoStageFilter(score, path) == StageChoice(FALSE, "", score, path)

StageAccepts_Any(best_similarity) == TRUE

\* if best_similarity >= 0.3
StageAccepts(best_similarity) == ScoreAtLeast(best_similarity, STAGE_THRESHOLD)

\* matching_stage_names: exact membership first, then the best fuzzy score
MatchingStage(stage_name, all_stage_names) ==
    IF ~stage_name.some THEN NoStageFilter(Zero, "no_query")
    ELSE IF all_stage_names = <<>> THEN NoStageFilter(Zero, "no_stages")
    ELSE IF stage_name.val \in Range(all_stage_names)
    THEN StageChoice(TRUE, stage_name.val, One, "exact")
    ELSE LET docs == [i \in DOMAIN all_stage_names |-> Words(all_stage_names[i])]
         IN IF VectorizerFails(docs) THEN NoStageFilter(Zero, "vector_error")
            ELSE LET sims == similarities(Words(stage_name.val), docs)
                     best_idx == argmax(sims)
                     best_similarity == Score(sims[best_idx])
                 IN IF StageAccepts(best_similarity)
                    THEN StageChoice(TRUE, all_stage_names[best_idx],
                                     best_similarity, "fuzzy_accept")
                    ELSE NoStageFilter(best_similarity, "fuzzy_reject")

InStage(matching, candidate) == matching.filter => candidate.stage_name = matching.stage

IsRecent(candidate) == candidate.recent

\* more than RECENT_LIMIT candidates: only those updated in the last 7 days
RecencyCut(filtered_candidates) ==
    IF Len(filtered_candidates) > RECENT_LIMIT
    THEN SelectSeq(filtered_candidates, IsRecent)
    ELSE filtered_candidates

\* the candidates the function returns, with the stage choice it made
get_candidates_for_opening(stage_name, resp, all_stage_names) ==
    IF resp.err
    THEN [path |-> "raise", matching |-> NoStageFilter(Zero, "raise"), candidates |-> <<>>]
    ELSE IF resp.body.candidates = <<>>
    THEN [path |-> "empty", matching |-> NoStageFilter(Zero, "empty"), candidates |-> <<>>]
    ELSE LET matching == MatchingStage(stage_name, all_stage_names)
             Staged(c) == InStage(matching, c)
         IN [path |-> matching.path, matching |-> matching,
             candidates |-> RecencyCut(SelectSeq(resp.body.candidates, Staged))]

CallGetCandidatesForOpening(stage_name, resp, all_stage_names) ==
    LET r == get_candidates_for_opening(stage_name, resp, all_stage_names)
    IN /\ pc = "idle"
       /\ pc' = "done"
       /\ last' = [op |-> "list_candidates", stage_name |-> stage_name,
                   upstream |-> resp.body.candidates,
                   all_stage_names |-> all_stage_names,
                   path |-> r.path, matching |-> r.matching,
                   candidates |-> r.candidates]
       /\ UNCHANGED <<now, cache, ACCOUNT_API_KEY, pool, lastFailed, fetchedAt>>

InitStages ==
    /\ now = 0
    /\ cache = InitCache
    /\ ACCOUNT_API_KEY = TRUE
    /\ pool = <<>>
    /\ pc = "idle"
    /\ last = NoCall
    /\ lastFailed = {}
    /\ fetchedAt = [k \in Kinds |-> 0]

NextStages ==
    \/ Return
    \/ \E stage_name \in StageQueries, resp \in StageListResponses :
          \E all_stage_names \in Orderings(ObservedStages(resp.body.candidates)) :
             CallGetCandidatesForOpening(stage_name, resp, all_stage_names)

SpecStages == InitStages /\ [][NextStages]_vars

----------------------------------------------------------------------------
(* The offer-letter lookup by opening and candidate name.  The request       *)
(* handler of src/app.py and the tool of src/server.py resolve the opening, *)
(* then the candidate within it, and fetch the offer letter of the          *)
(* candidate found; the model follows them up to the candidate found.       *)

\* the stages an offer letter belongs to
OFFER_STAGES == {"Offered", "Hired"}

\* what the caller passes as opening_name_or_id
OpeningQueries == { <<>>, <<"Backend">>, <<"2">> }

OfferLookup(outcome, id) == [outcome |-> outcome, id |-> id]

\* the lookup with candidate_id absent; filter_stages is what the handler
\* passes to find_candidate_by_name_in_opening
offer_letter_lookup(filter_stages, c, t, opening_name_or_id, candidate_name, oresp, cresp) ==
    IF opening_name_or_id = <<>> \/ candidate_name = <<>>
    THEN [cache |-> c, fetched |-> 0, res |-> OfferLookup("bad_request", NoId)]
    ELSE LET o == find_opening_id_by_name(c, t, opening_name_or_id, BASE_API_KEY,
                                          <<1, 2>>, oresp)
         IN IF o.res.path = "raise"
            THEN [cache |-> o.cache, fetched |-> o.fetched,
                  res |-> OfferLookup("error", NoId)]
            ELSE IF o.res.id = NoId
            THEN [cache |-> o.cache, fetched |-> o.fetched,
                  res |-> OfferLookup("opening_not_found", NoId)]
            ELSE LET r == find_candidate_by_name_in_opening(
                              candidate_name, o.res.id, <<1, 2>>, filter_stages, cresp)
                 IN [cache |-> o.cache, fetched |-> o.fetched,
                     res |-> IF r.id = NoId
                             THEN OfferLookup("candidate_not_found", NoId)
                             ELSE OfferLookup("found", r.id)]

\* src/app.py: filter_stages=['Offered', 'Hired']
get_offer_letter_by_candidate(c, t, opening_name_or_id, candidate_name, oresp, cresp) ==
    offer_letter_lookup(OFFER_STAGES, c, t, opening_name_or_id, candidate_name, oresp, cresp)

\* src/server.py: filter_stages is not passed and defaults to None
get_offer_letter_tool(c, t, opening_name_or_id, candidate_name, oresp, cresp) ==
    offer_letter_lookup({}, c, t, opening_name_or_id, candidate_name, oresp, cresp)

FinishOfferLookup(handler, opening_name_or_id, candidate_name, oresp, cresp, r) ==
    /\ pc = "idle"
    /\ pc' = "done"
    /\ cache' = r.cache
    /\ last' = [op |-> "offer_letter", handler |-> handler,
                opening_query |-> opening_name_or_id, query |-> candidate_name,
                upstream |-> cresp.body.candidates,
                outcome |-> r.res.outcome, id |-> r.res.id]
    /\ lastFailed' = IF r.fetched = 1 /\ oresp.err
                     THEN lastFailed \cup {"openings"}
                     ELSE lastFailed \ {"openings"}
    /\ fetchedAt' = RecordFetch(fetchedAt, "openings",
                                r.fetched = 1 /\ Writes("openings", TRUE, oresp), now)
    /\ UNCHANGED <<now, ACCOUNT_API_KEY, pool>>

CallGetOfferLetterByCandidate(opening_name_or_id, candidate_name, oresp, cresp) ==
    FinishOfferLookup("get_offer_letter_by_candidate", opening_name_or_id,
                      candidate_name, oresp, cresp,
                      get_offer_letter_by_candidate(cache, now, opening_name_or_id,
                                                    candidate_name, oresp, cresp))

CallGetOfferLetterTool(opening_name_or_id, candidate_name, oresp, cresp) ==
    FinishOfferLookup("get_offer_letter_tool", opening_name_or_id,
                      candidate_name, oresp, cresp,
                      get_offer_letter_tool(cache, now, opening_name_or_id,
                                            candidate_name, oresp, cresp))

NextOffer ==
    \/ Return
    \/ \E o \in OpeningQueries, q \in Queries,
          oresp \in OpeningListResponses, cresp \in CandidateListResponses :
          CallGetOfferLetterByCandidate(o, q, oresp, cresp)
    \/ \E o \in OpeningQueries, q \in Queries,
          oresp \in OpeningListResponses, cresp \in CandidateListResponses :
          CallGetOfferLetterTool(o, q, oresp, cresp)

----------------------------------------------------------------------------
(* The tool get_job_description of src/server.py, and a specification in     *)
(* which the fetchers, the resolvers and this tool all work on one cache    *)

\* next((jd for jd in jds if jd['id'] == opening_id), None)
JdOf(jds, opening_id) == FirstOf({ i \in DOMAIN jds : jds[i].id = opening_id })

\* failed: the kinds whose latest call failed upstream on a miss, after the tool
ToolResult(c, outcome, id, failed) ==
    [cache |-> c, outcome |-> outcome, id |-> id, failed |-> failed]

\* the history of failures after one more fetcher call
AfterFetch(failed, kind, use_cache, r, resp) ==
    IF FailedOnMiss(use_cache, r, resp) THEN failed \cup {kind} ELSE failed \ {kind}

\* the job descriptions once the opening is resolved: the cached list first,
\* a bypass fetch when the opening is not in it
JobDescriptionOf(c, t, failed, opening_id, resp3, resp4) ==
    LET f3 == get_job_descriptions(c, t, BASE_API_KEY, TRUE, resp3)
        failed3 == AfterFetch(failed, "job_descriptions", TRUE, f3, resp3)
        f4 == get_job_descriptions(f3.cache, t, BASE_API_KEY, FALSE, resp4)
        failed4 == AfterFetch(failed3, "job_descriptions", FALSE, f4, resp4)
    IN IF f3.outcome = "error" THEN ToolResult(f3.cache, "error", NoId, failed3)
       ELSE IF JdOf(f3.ret, opening_id) # 0
       THEN ToolResult(f3.cache, "job_description", opening_id, failed3)
       ELSE IF f4.outcome = "error" THEN ToolResult(f4.cache, "error", NoId, failed4)
       ELSE IF JdOf(f4.ret, opening_id) # 0
       THEN ToolResult(f4.cache, "job_description", opening_id, failed4)
       ELSE ToolResult(f4.cache, "all_openings", opening_id, failed4)

\* resp1 answers the request of get_base_openings, should it make one; the
\* resolver then finds the entry fresh; resp3 and resp4 answer the requests of
\* the two calls of get_job_descriptions
get_job_description(c, t, failed, opening_name_or_id, resp1, resp3, resp4) ==
    LET f1 == get_base_openings(c, t, BASE_API_KEY, TRUE, resp1)
        failed1 == AfterFetch(failed, "openings", TRUE, f1, resp1)
        o == find_opening_id_by_name(f1.cache, t, opening_name_or_id, BASE_API_KEY,
                                     <<1, 2>>, resp1)
    IN IF f1.outcome = "error" THEN ToolResult(f1.cache, "error", NoId, failed1)
       ELSE IF opening_name_or_id = <<>>
       THEN ToolResult(f1.cache, "all_openings", NoId, failed1)
       ELSE IF o.res.path = "raise" THEN ToolResult(o.cache, "error", NoId, failed1)
       ELSE IF o.res.id = NoId THEN ToolResult(o.cache, "all_openings", NoId, failed1)
       ELSE JobDescriptionOf(o.cache, t, failed1, o.res.id, resp3, resp4)

CallGetJobDescription(opening_name_or_id, resp1, resp3, resp4) ==
    LET r == get_job_description(cache, now, lastFailed, opening_name_or_id,
                                 resp1, resp3, resp4)
    IN /\ pc = "idle"
       /\ pc' = "done"
       /\ cache' = r.cache
       /\ last' = [op |-> "tool", tool |-> "get_job_description",
                   query |-> opening_name_or_id, outcome |-> r.outcome, id |-> r.id]
       /\ lastFailed' = r.failed
       /\ fetchedAt' = [k \in Kinds |->
                          IF r.cache[k] # cache[k] THEN now ELSE fetchedAt[k]]
       /\ UNCHANGED <<now, ACCOUNT_API_KEY, pool>>

\* the opening list of the upstream, a reply without the 'openings' key, a failure
FrameListResponses ==
    OpeningListResponses \cup {OkResponse([has_openings |-> FALSE, openings |-> <<>>])}

FrameUsersResponses ==
    { UsersErrResponse, OkResponse([has_users |-> TRUE, users |-> <<User("an", "An", "QA")>>]) }

FramePools == { <<>>, << <<"Backend">>, <<"Backend", "Developer">> >> }

FrameQueries == { <<>>, <<"backend">> }

\* in this specification the clock stops after one TTL
FrameMaxTime == 300

TickFrame ==
    /\ now + TickStep <= FrameMaxTime
    /\ Tick

InitFrame ==
    /\ now = 0
    /\ cache = InitCache
    /\ ACCOUNT_API_KEY = TRUE
    /\ pool \in FramePools
    /\ pc = "idle"
    /\ last = NoCall
    /\ lastFailed = {}
    /\ fetchedAt = [k \in Kinds |-> 0]

NextFrame ==
    \/ TickFrame
    \/ Return
    \/ \E use_cache \in BOOLEAN, resp \in FrameListResponses :
          CallGetBaseOpenings(use_cache, resp)
    \/ \E use_cache \in BOOLEAN, resp \in FrameListResponses :
          CallGetJobDescriptions(use_cache, resp)
    \/ \E use_cache \in BOOLEAN, resp \in FrameUsersResponses :
          CallGetUsersInfo(use_cache, resp)
    \/ \E q \in FrameQueries, resp \in OpeningListResponses :
          CallFindOpeningIdByName(q, <<1, 2>>, resp)
    \/ \E q \in FrameQueries, resp \in CandidateListResponses :
          CallFindCandidateByNameInOpening(q, "2", <<1, 2>>, {}, resp)
    \/ \E q \in FrameQueries : CallFindTestByName(TestsOf(pool), q, <<1, 2>>)
    \/ \E q \in FrameQueries, resp1, resp3 \in FrameListResponses,
          resp4 \in OpeningListResponses :
          CallGetJobDescription(q, resp1, resp3, resp4)

SpecFrame == InitFrame /\ [][NextFrame]_vars

InitResolve ==
    /\ now = 0
    /\ cache = InitCache
    /\ ACCOUNT_API_KEY = TRUE
    /\ pool \in Pools
    /\ pc = "idle"
    /\ last = NoCall
    /\ lastFailed = {}
    /\ fetchedAt = [k \in Kinds |-> 0]

NextResolve ==
    \/ Return
    \/ \E q \in Queries, thr \in Thresholds, resp \in OpeningListResponses :
          CallFindOpeningIdByName(q, thr, resp)
    \/ \E q \in Queries, thr \in Thresholds, opening_id \in {"", "2"},
          filter_stages \in StageFilters, resp \in CandidateListResponses :
          CallFindCandidateByNameInOpening(q, opening_id, thr, filter_stages, resp)
    \/ \E q \in Queries, thr \in Thresholds :
          CallFindTestByName(TestsOf(pool), q, thr)

SpecResolve == InitResolve /\ [][NextResolve]_vars

SpecOffer == InitResolve /\ [][NextOffer]_vars

----------------------------------------------------------------------------
(* Properties of the cache store and the fetchers *)

\* this step is a completed fetcher call of kind k
FetchStep(k) ==
    /\ pc = "idle" /\ pc' = "done"
    /\ last'.op = "fetch" /\ last'.kind = k

FetchDone == pc = "done" /\ last.op = "fetch"

\* C1: once a caching call has populated an entry at t0, a later caching call
\* at t with t - t0 < 300 makes no upstream request, and a later caching call
\* with t - t0 >= 300 whose fetch succeeds makes exactly one request and
\* repopulates the entry with what it returns, stamped t.
C1_TTLRespected ==
    [][\A k \in Kinds :
         (FetchStep(k) /\ last'.use_cache /\ cache[k].data.some)
         => IF now - cache[k].timestamp < CACHE_TTL
            THEN last'.fetched = 0
            ELSE ~last'.upstream_err
                 => /\ last'.fetched = 1
                    /\ cache'[k] = Entry(Some(last'.ret), now)]_vars

\* C2: a cache hit (caching call, data present, now - timestamp < CACHE_TTL)
\* returns the stored snapshot, makes no upstream request and leaves the
\* cache as it was.
C2_HitFrame ==
    [][\A k \in Kinds :
         (FetchStep(k) /\ last'.use_cache /\ cache[k].data.some
            /\ now - cache[k].timestamp < CACHE_TTL)
         => /\ last'.outcome = "hit"
            /\ last'.ret = cache[k].data.val
            /\ last'.fetched = 0
            /\ cache' = cache]_vars

\* a hit taken strictly after the entry was written, returning a non-empty snapshot
C2_Witness ==
    /\ FetchDone /\ last.outcome = "hit" /\ last.ret # <<>>
    /\ last.at > cache[last.kind].timestamp

\* C3: a bypass call (use_cache = False) whose fetch succeeds stores what it
\* fetched in the entry of its kind, stamped with the time of the call.
C3_BypassStores ==
    (FetchDone /\ ~last.use_cache /\ last.outcome = "fresh")
    => cache[last.kind] = Entry(Some(last.ret), last.at)

\* C4: a bypass call always makes an upstream request (for the user directory:
\* whenever the account credential is configured), also right after the entry
\* of its kind was populated.
C4_BypassFetches ==
    (FetchDone /\ ~last.use_cache
       /\ (last.kind = "users_info" => ACCOUNT_API_KEY))
    => last.fetched = 1

\* a bypass call made at the very time the entry of its kind was populated
C4_Witness ==
    /\ FetchDone /\ ~last.use_cache /\ last.fetched = 1
    /\ cache[last.kind].data.some /\ cache[last.kind].timestamp = last.at

\* C5: when the upstream request of get_base_openings or get_job_descriptions
\* fails on a cold or expired entry, the call ends in an error and the cache
\* (the entry of that kind included) is exactly as before the call.
C5_FailureKeepsEntry ==
    [][\A k \in {"openings", "job_descriptions"} :
         (FetchStep(k) /\ last'.use_cache /\ last'.upstream_err
            /\ ~(cache[k].data.some /\ now - cache[k].timestamp < CACHE_TTL))
         => /\ last'.outcome = "error"
            /\ cache' = cache]_vars

\* a failed refresh of an expired entry: the stale snapshot is still stored
C5_Witness ==
    /\ FetchDone /\ last.kind \in {"openings", "job_descriptions"}
    /\ last.use_cache /\ last.outcome = "error" /\ last.fetched = 1
    /\ cache[last.kind].data.some /\ cache[last.kind].data.val # <<>>
    /\ last.at - cache[last.kind].timestamp >= CACHE_TTL

\* C6: a call that goes upstream and fails returns a failure outcome carrying
\* no data (an error for openings and job descriptions, an empty mapping for
\* the user directory), never a stored snapshot; a call that goes upstream and
\* succeeds returns the fresh data; a failure changes no cache entry; and the
\* next call of a kind whose latest call failed on a miss goes upstream again.
C6_FailureNotCached ==
    /\ [](FetchDone /\ last.fetched = 1
            => IF last.upstream_err
               THEN /\ last.ret = <<>>
                    /\ last.outcome =
                         (IF last.kind = "users_info" THEN "empty" ELSE "error")
               ELSE last.outcome = "fresh")
    /\ [](FetchDone /\ last.retry => last.fetched = 1)
    /\ [][\A k \in Kinds :
            (FetchStep(k) /\ last'.fetched = 1 /\ last'.upstream_err)
            => cache' = cache]_vars

\* a retry after a failed refresh of an expired entry fetches and succeeds
C6_Witness ==
    /\ FetchDone /\ last.retry /\ last.use_cache
    /\ last.fetched = 1 /\ last.outcome = "fresh"
    /\ last.at >= CACHE_TTL

----------------------------------------------------------------------------
(* Properties of the resolvers *)

\* a resolver call has returned a result (it did not raise)
ResolveDone == pc = "done" /\ last.op = "resolve" /\ last.path # "raise"

\* the pool entities whose display name equals the query
NamedLikeQuery == { i \in DOMAIN last.entities : last.entities[i].name = last.query }

\* the pool entities the exact step matches: by name, for openings also by id
ExactMatches ==
    { i \in DOMAIN last.entities :
        \/ last.entities[i].name = last.query
        \/ last.resolver = "opening" /\ <<last.entities[i].id>> = last.query }

\* the entities the scorer is given: all openings, the named candidates or tests
ScoredEntities ==
    IF last.resolver = "opening" THEN last.entities
    ELSE SelectSeq(last.entities, HasName)

ScoredNames == [i \in DOMAIN ScoredEntities |-> ScoredEntities[i].name]

\* the scorer's similarities for the query, none when nothing can be scored
ScoredSims ==
    IF ScoredNames = <<>> \/ VectorizerFails(ScoredNames) THEN <<>>
    ELSE similarities(last.query, ScoredNames)

\* the entities no other entity scores higher than
BestScoring(sims) ==
    { i \in DOMAIN sims : \A j \in DOMAIN sims : ~SimLess(sims[i], sims[j]) }

\* the best score of the pool for the query; 0 when nothing can be scored
BestScore(sims) ==
    IF sims = <<>> THEN Zero
    ELSE Score(sims[CHOOSE i \in BestScoring(sims) : TRUE])

\* C7 (as claimed): whenever the pool holds an entity whose display name equals
\* the query, the resolver returns score 1.0 and the id of such an entity, and
\* the scorer is not invoked.
C7_ExactShortCircuit ==
    (ResolveDone /\ NamedLikeQuery # {})
    => /\ last.score = One
       /\ ~last.scored
       /\ \E i \in NamedLikeQuery : last.id = last.entities[i].id

\* C7 (amended): when the exact step matches an entity of the pool (display
\* name equal to the query; for openings also id equal to the query) and, for
\* the candidate and test resolvers, the query is not empty, the resolver
\* returns score 1.0 and the id of the first matching entity in pool order,
\* and the scorer is not invoked.
C7_FirstExactMatchWins ==
    (ResolveDone /\ ExactMatches # {}
       /\ (last.resolver # "opening" => last.query # <<>>))
    => /\ last.score = One
       /\ ~last.scored
       /\ \E i \in ExactMatches :
             /\ \A j \in ExactMatches : i <= j
             /\ last.id = last.entities[i].id

\* two entities match the query exactly and the earlier one is returned
C7_Witness ==
    /\ ResolveDone /\ last.score = One /\ ~last.scored
    /\ Cardinality(ExactMatches) >= 2
    /\ \E i \in NamedLikeQuery : last.id = last.entities[i].id

\* C8: with a non-empty pool and no exact match the resolver accepts iff the
\* best score of the pool is >= the threshold; on acceptance it returns the id
\* of an entity attaining the best score; accepted or rejected, the score it
\* reports is the best score, which the threshold has no part in.
C8_ThresholdGate ==
    (ResolveDone /\ last.entities # <<>> /\ ExactMatches = {})
    => LET sims == ScoredSims
           best_score == BestScore(sims)
       IN /\ last.id # NoId <=> ScoreAtLeast(best_score, last.threshold)
          /\ last.score = best_score
          /\ last.id # NoId
               => \E i \in BestScoring(sims) : last.id = ScoredEntities[i].id

\* a fuzzy match accepted with its score exactly at the threshold
C8_Witness ==
    /\ ResolveDone /\ last.scored /\ last.id # NoId
    /\ ExactMatches = {}
    /\ last.threshold = <<1, 1>> /\ last.score = One

\* C9: a result whose score is below the threshold carries a null id.
C9_BelowThresholdNoId ==
    (ResolveDone /\ ~ScoreAtLeast(last.score, last.threshold))
    => last.id = NoId

\* a fuzzy result with a positive score below the threshold
C9_Witness ==
    /\ ResolveDone /\ last.scored /\ last.score # Zero
    /\ ~ScoreAtLeast(last.score, last.threshold)
    /\ last.id = NoId

\* the reported float is exactly 1.0
ReportsOne == last.score = One /\ last.ulps = 0

\* C10 (as claimed): a result has score 1.0 iff the exact step found a match,
\* then with a non-null id; a result of the fuzzy fallback never has score 1.0.
C10_OneIffExact ==
    ResolveDone
    => /\ ReportsOne <=> last.path = "exact"
       /\ last.path = "exact" => last.id # NoId
       /\ last.scored => ~ReportsOne

\* C10 (amended): a result of the exact step has score 1.0 and a non-null id,
\* and every result with score 1.0 has a non-null id; the fuzzy fallback too
\* can report 1.0 (a query that differs from a pool name in letter case only).
C10_ExactIsOne ==
    ResolveDone
    => /\ last.path = "exact" => (ReportsOne /\ last.id # NoId)
       /\ ReportsOne => last.id # NoId

\* the fuzzy fallback reports 1.0 for a query no pool name equals
C10_Witness ==
    /\ ResolveDone /\ last.scored /\ NamedLikeQuery = {}
    /\ ReportsOne /\ last.id # NoId
    /\ last.threshold = <<1, 2>>

\* threshold a <= threshold b
ThresholdLeq(a, b) == a[1] * b[2] <= b[1] * a[2]

\* the resolver of the last call, applied to the same pool and query at another threshold
ResolveAt(similarity_threshold) ==
    CASE last.resolver = "opening" ->
           ResolveOpening(last.entities, last.query, similarity_threshold)
      [] last.resolver = "candidate" ->
           find_candidate_by_name_in_opening(
               last.query, "2", similarity_threshold, {},
               OkResponse([candidates |-> last.entities]))
      [] OTHER -> find_test_by_name(last.entities, last.query, similarity_threshold)

\* C11: for a fixed query and pool, a resolution accepted at a threshold is
\* accepted with the same id at every lower threshold, and a resolution
\* rejected at a threshold is rejected at every higher threshold.
C11_ThresholdMonotone ==
    ResolveDone
    => \A other \in Thresholds :
         /\ (last.id # NoId /\ ThresholdLeq(other, last.threshold))
              => ResolveAt(other).id = last.id
         /\ (last.id = NoId /\ ThresholdLeq(last.threshold, other))
              => ResolveAt(other).id = NoId

\* a fuzzy match accepted at threshold 1.0, hence also at 0.5
C11_Witness ==
    /\ ResolveDone /\ last.scored /\ last.id # NoId
    /\ last.threshold = <<1, 1>>
    /\ ResolveAt(<<1, 2>>).id = last.id

\* the resolver of the last call obtained its pool and the pool holds nothing
\* to match: no openings, no candidates, no candidate with a name, no tests
EmptyPool ==
    /\ pc = "done" /\ last.op = "resolve"
    /\ CASE last.resolver = "opening" ->
              cache["openings"].data.some /\ cache["openings"].data.val = <<>>
         [] last.resolver = "candidate" ->
              last.fetched = 1 /\ SelectSeq(last.entities, HasName) = <<>>
         [] OTHER -> last.entities = <<>>

\* C12: resolving any query against an empty pool returns a rejection with a
\* null id and score 0.0, and raises no exception.
C12_EmptyPoolRejects ==
    EmptyPool
    => /\ last.path # "raise"
       /\ last.id = NoId
       /\ last.score = Zero

\* a non-empty query against candidates none of which has a name
C12_Witness ==
    /\ EmptyPool /\ last.resolver = "candidate"
    /\ last.entities # <<>> /\ last.query # <<>>
    /\ last.id = NoId /\ last.score = Zero

\* C13: a resolution call never raises; an upstream error or a vectorization
\* error inside a resolver is reported as a null id with score 0.0.
C13_NeverRaises ==
    (pc = "done" /\ last.op = "resolve")
    => /\ last.path # "raise"
       /\ last.path \in {"upstream_error", "vector_error"}
            => (last.id = NoId /\ last.score = Zero)

----------------------------------------------------------------------------
(* Fetcher calls that overlap.  The fetchers are plain functions called by   *)
(* coroutines (the handlers of src/server.py and src/app.py are async def):  *)
(* on the event loop a call cannot be interrupted between two statements,   *)
(* and the only point where it waits is its upstream request.  A call here  *)
(* runs from its entry to the upstream request without interruption, is     *)
(* suspended while the request is in flight, and runs from the reply to its *)
(* return without interruption.  With the blocking requests.post of the     *)
(* source not even that suspension happens; it is the overlap of a runtime  *)
(* that lets other calls run while a request is in flight.  In this         *)
(* specification pc and last hold one value per caller.                     *)

Callers == {"a", "b"}

ResponsesOf(kind) == IF kind = "users_info" THEN UsersResponses ELSE ListResponses

\* the part of a fetcher after the cache check, by kind
Refresh(kind, c, t, use_cache, resp) ==
    CASE kind = "openings" -> RefreshBaseOpenings(c, t, use_cache, resp)
      [] kind = "job_descriptions" -> RefreshJobDescriptions(c, t, use_cache, resp)
      [] OTHER -> RefreshUsersInfo(c, t, use_cache, resp)

NoReply == [err |-> FALSE, body |-> <<>>]

\* a call in progress or completed: at is its current_time, sent is when its
\* upstream request (if it makes one) goes out, cold tells that
\* the entry held no data when the call checked it, reply is what the upstream
\* answered, latest tells that the call made the most recent write of its kind,
\* overtaken tells that another call wrote the entry of the kind while the
\* request of this call was in flight
Pending(kind, use_cache) ==
    [op |-> "fetch", kind |-> kind, use_cache |-> use_cache, at |-> now,
     sent |-> now, cold |-> ~cache[kind].data.some, reply |-> NoReply, upstream_err |-> FALSE,
     outcome |-> "pending", ret |-> <<>>, fetched |-> 0, latest |-> FALSE,
     overtaken |-> FALSE]

Completed(call, outcome, ret, fetched, reply, latest) ==
    [call EXCEPT !.outcome = outcome, !.ret = ret, !.fetched = fetched,
                 !.reply = reply, !.upstream_err = reply.err, !.latest = latest]

\* entries of different kinds do not interact: the calls of a run that overlap
\* or follow a cached call are calls of one kind
OneKind(kind) ==
    /\ \A k \in Kinds \ {kind} : ~cache[k].data.some
    /\ \A c \in Callers : last[c].op = "fetch" => last[c].kind = kind

\* entry of a fetcher: current_time, the credential check and the cache check
Begin(caller, kind, use_cache) ==
    /\ pc[caller] = "idle"
    /\ OneKind(kind)
    /\ IF kind = "users_info" /\ ~ACCOUNT_API_KEY
       THEN /\ pc' = [pc EXCEPT ![caller] = "done"]
            /\ last' = [last EXCEPT ![caller] =
                          Completed(Pending(kind, use_cache), "empty", <<>>, 0,
                                    NoReply, FALSE)]
       ELSE IF CacheHit(cache, kind, now, use_cache)
       THEN /\ pc' = [pc EXCEPT ![caller] = "done"]
            /\ last' = [last EXCEPT ![caller] =
                          Completed(Pending(kind, use_cache), "hit",
                                    cache[kind].data.val, 0, NoReply, FALSE)]
       ELSE /\ pc' = [pc EXCEPT ![caller] = "fetching"]
            /\ last' = [last EXCEPT ![caller] = Pending(kind, use_cache)]
    /\ UNCHANGED <<now, cache, ACCOUNT_API_KEY, pool, lastFailed, fetchedAt>>

\* the reply arrives: shape, store under the call's own current_time, return
Resume(caller) ==
    /\ pc[caller] = "fetching"
    /\ \E resp \in ResponsesOf(last[caller].kind) :
       LET call == last[caller]
           r == Refresh(call.kind, cache, call.at, call.use_cache, resp)
           wrote == Writes(call.kind, call.use_cache, resp)
       IN /\ cache' = r.cache
          /\ fetchedAt' = RecordFetch(fetchedAt, call.kind, wrote, call.sent)
          /\ pc' = [pc EXCEPT ![caller] = "done"]
          /\ last' = [c \in Callers |->
                        IF c = caller
                        THEN Completed(call, r.outcome, r.ret, 1, resp, wrote)
                        ELSE IF wrote /\ last[c].op = "fetch" /\ last[c].kind = call.kind
                        THEN [last[c] EXCEPT !.latest = FALSE,
                                             !.overtaken = @ \/ pc[c] = "fetching"]
                        ELSE last[c]]
    /\ UNCHANGED <<now, ACCOUNT_API_KEY, pool, lastFailed>>

ReturnCaller(caller) ==
    /\ pc[caller] = "done"
    /\ pc' = [pc EXCEPT ![caller] = "idle"]
    /\ last' = [last EXCEPT ![caller] = NoCall]
    /\ UNCHANGED <<now, cache, ACCOUNT_API_KEY, pool, lastFailed, fetchedAt>>

\* time passes, also while requests are in flight
TickConcurrent ==
    /\ now + TickStep <= MaxTime
    /\ now' = now + TickStep
    /\ UNCHANGED <<cache, ACCOUNT_API_KEY, pool, pc, last, lastFailed, fetchedAt>>

InitConcurrent ==
    /\ now = 0
    /\ cache = InitCache
    /\ ACCOUNT_API_KEY \in BOOLEAN
    /\ pool = <<>>
    /\ pc = [c \in Callers |-> "idle"]
    /\ last = [c \in Callers |-> NoCall]
    /\ lastFailed = {}
    /\ fetchedAt = [k \in Kinds |-> 0]

NextConcurrent ==
    \/ TickConcurrent
    \/ \E caller \in Callers, kind \in Kinds, use_cache \in BOOLEAN :
          Begin(caller, kind, use_cache)
    \/ \E caller \in Callers : Resume(caller)
    \/ \E caller \in Callers : ReturnCaller(caller)

SpecConcurrent == InitConcurrent /\ [][NextConcurrent]_vars

----------------------------------------------------------------------------
(* Properties of overlapping fetcher calls *)

\* both callers found the openings entry cold, fetched within one TTL window
\* and completed with a successful fetch
BothColdDone ==
    /\ \A c \in Callers :
         /\ pc[c] = "done" /\ last[c].op = "fetch" /\ last[c].kind = "openings"
         /\ last[c].use_cache /\ last[c].cold /\ last[c].outcome = "fresh"
    /\ \A c, d \in Callers : last[c].at - last[d].at < CACHE_TTL

\* the stored openings entry is the data and the current_time of the caller
\* whose write came last
LastWriterStored ==
    \E w \in Callers :
        /\ last[w].latest
        /\ \A c \in Callers \ {w} : ~last[c].latest
        /\ cache["openings"] = Entry(Some(last[w].ret), last[w].at)

----------------------------------------------------------------------------
(* Further properties of the fetchers and the resolvers *)

\* C15: after a caching call whose upstream fetch succeeded, the entry of its
\* kind holds exactly the collection shaped from that fetch (the one the call
\* returns), whatever snapshot it held before.
C15_SnapshotReplaced ==
    [][\A k \in Kinds :
         (FetchStep(k) /\ last'.use_cache /\ last'.fetched = 1
            /\ ~last'.upstream_err)
         => cache'[k].data = Some(last'.ret)]_vars

\* get_candidates_for_opening was given a stage_name and got candidates
StageListed ==
    /\ pc = "done" /\ last.op = "list_candidates"
    /\ last.path # "raise" /\ last.upstream # <<>>
    /\ last.stage_name.some

\* the upstream candidates of one stage, in upstream order
OfStage(s) ==
    LET AtStage(c) == c.stage_name = s
    IN SelectSeq(last.upstream, AtStage)

\* the scorer's similarities of the stage query, none when nothing can be scored
StageSims ==
    LET docs == [i \in DOMAIN last.all_stage_names |-> Words(last.all_stage_names[i])]
    IN IF docs = <<>> \/ VectorizerFails(docs) THEN <<>>
       ELSE similarities(Words(last.stage_name.val), docs)

StageFiltered ==
    ResolveDone /\ last.resolver = "candidate" /\ last.filter_stages # {}

\* the upstream candidates whose stage is in the allow-list
Allowed ==
    { i \in DOMAIN last.upstream : last.upstream[i].stage_name \in last.filter_stages }

\* C17: with a non-empty filter_stages, an id returned by the candidate
\* resolver, from the exact or the fuzzy step, is the id of a candidate whose
\* stage_name is in filter_stages, and when no candidate is in an allowed stage
\* the result is a null id with score 0.0.
C17_StageAllowList ==
    StageFiltered
    => /\ last.id # NoId => \E i \in Allowed : last.upstream[i].id = last.id
       /\ Allowed = {} => (last.id = NoId /\ last.score = Zero)

\* an earlier candidate named like the query is outside the allow-list and a
\* later, allowed one is returned
C17_Witness ==
    /\ StageFiltered /\ last.id # NoId
    /\ \E i \in DOMAIN last.upstream \ Allowed, j \in Allowed :
         /\ i < j
         /\ last.upstream[i].name = last.query
         /\ last.upstream[j].id = last.id

\* C18: every score a resolver reports lies in the closed interval [0, 1].
C18_ScoreInUnitInterval ==
    ResolveDone
    => /\ 0 <= last.score[1]
       /\ last.score[1] <= last.score[2]
       /\ last.score = One => last.ulps <= 0

\* C19: get_users_info never ends in an error; without the account credential
\* it returns an empty mapping, makes no upstream request and leaves the cache
\* as it was; when its upstream request fails it returns an empty mapping and
\* leaves the cache as it was.
C19_UsersInfoNeverRaises ==
    [][(FetchStep("users_info"))
       => /\ last'.outcome # "error"
          /\ ~ACCOUNT_API_KEY
               => /\ last'.outcome = "empty" /\ last'.ret = <<>>
                  /\ last'.fetched = 0
                  /\ cache' = cache
          /\ (last'.fetched = 1 /\ last'.upstream_err)
               => /\ last'.outcome = "empty" /\ last'.ret = <<>>
                  /\ cache' = cache]_vars

\* a failed refresh of an expired user directory: empty mapping returned, the
\* old snapshot still stored
C19_Witness ==
    /\ FetchDone /\ last.kind = "users_info" /\ last.use_cache
    /\ last.fetched = 1 /\ last.upstream_err
    /\ last.outcome = "empty" /\ last.ret = <<>>
    /\ cache["users_info"].data.some /\ cache["users_info"].data.val # <<>>
    /\ last.at - cache["users_info"].timestamp >= CACHE_TTL

\* the exact matches of the last call: openings by id or by name, candidates
\* and tests that have a name by that name
ExactNamed ==
    { i \in ExactMatches : last.resolver = "opening" \/ HasName(last.entities[i]) }

FirstExact == CHOOSE i \in ExactNamed : \A j \in ExactNamed : i <= j

\* C20: when several entities of the pool match the query exactly, the
\* resolver returns the one that comes first in pool order, with score 1.0 and
\* without computing any similarity.
C20_FirstInPoolOrder ==
    (ResolveDone /\ Cardinality(ExactNamed) >= 2)
    => /\ last.id = last.entities[FirstExact].id
       /\ last.score = One
       /\ ~last.scored

\* the first opening matches by id only, a later one is named like the query:
\* the first is returned
C20_Witness ==
    /\ ResolveDone /\ last.resolver = "opening"
    /\ Cardinality(ExactNamed) >= 2
    /\ last.entities[FirstExact].name # last.query
    /\ last.id = last.entities[FirstExact].id
    /\ NamedLikeQuery # {}

\* the earliest of the entities attaining the best score
FirstBest(sims) == CHOOSE i \in BestScoring(sims) : \A j \in BestScoring(sims) : i <= j

\* C21: in the fuzzy fallback the entity selected is the one at the first index
\* of the maximum score: when several scored entities tie for the best score,
\* the earliest of them in pool order is the one returned.
C21_FirstOfBestScore ==
    (ResolveDone /\ last.path = "fuzzy_accept")
    => LET sims == ScoredSims
       IN /\ last.id = ScoredEntities[FirstBest(sims)].id
          /\ last.resolver # "candidate"
               => last.name = Some(ScoredEntities[FirstBest(sims)].name)

\* two scored entities tie for the best score and the earlier one is returned
C21_Witness ==
    /\ ResolveDone /\ last.path = "fuzzy_accept"
    /\ LET sims == ScoredSims
       IN /\ Cardinality(BestScoring(sims)) >= 2
          /\ last.id = ScoredEntities[FirstBest(sims)].id
          /\ \E j \in BestScoring(sims) : ScoredEntities[j].id # last.id

----------------------------------------------------------------------------
(* Further properties of overlapping fetcher calls *)

\* this step is the return of caller c from a cache hit
HitStep(c) == pc[c] = "idle" /\ pc'[c] = "done" /\ last'[c].outcome = "hit"

\* this step is the arrival of the reply of caller c's request
ReplyStep(c) == pc[c] = "fetching" /\ pc'[c] = "done"

\* C22: under any interleaving of calls of one kind no reader sees a
\* half-written entry: an entry changes only by being replaced as a whole with
\* the data and the current_time of one call, and a cache hit returns the data
\* of the very entry whose timestamp it found fresh.
C22_NoHalfWrittenEntry ==
    [][/\ \A k \in Kinds :
            cache'[k] # cache[k]
            => \E c \in Callers :
                  /\ ReplyStep(c) /\ last[c].kind = k
                  /\ cache'[k] = Entry(Some(last'[c].ret), last[c].at)
       /\ \A c \in Callers :
            HitStep(c)
            => LET entry == cache[last'[c].kind]
               IN /\ entry.data.some
                  /\ last'[c].at - entry.timestamp < CACHE_TTL
                  /\ last'[c].ret = entry.data.val
                  /\ cache'[last'[c].kind] = entry]_vars

\* a hit on an entry one caller wrote, taken while the other caller's request
\* for the same kind is still in flight
C22_Witness ==
    \E c, d \in Callers :
        /\ pc[c] = "done" /\ last[c].outcome = "hit" /\ last[c].ret # <<>>
        /\ pc[d] = "fetching" /\ last[d].use_cache /\ last[d].kind = last[c].kind

----------------------------------------------------------------------------
(* Properties of the shaping of the opening list *)

\* the positions of the openings of a list whose status is '10'
ActiveAt(openings) == { i \in DOMAIN openings : openings[i].status = "10" }

\* snapshot is the list of the active openings of the upstream list, in the
\* order of that list, each as a record of id and name and nothing else
IsActiveProjection(snapshot, openings) ==
    \E at \in [DOMAIN snapshot -> ActiveAt(openings)] :
        /\ Range(at) = ActiveAt(openings)
        /\ \A i, j \in DOMAIN snapshot : i < j => at[i] < at[j]
        /\ \A i \in DOMAIN snapshot :
              snapshot[i] = [id |-> openings[at[i]].id, name |-> openings[at[i]].name]

\* C23: the openings snapshot holds exactly the upstream openings of status
\* '10', in upstream order, each projected to id and name; an opening of
\* another status is neither in the snapshot nor in the pool the opening
\* resolver works on, and is never what the resolver returns.
C23_ActiveOpeningsOnly ==
    (ResolveDone /\ last.resolver = "opening")
    => /\ cache["openings"].data.some
       /\ IsActiveProjection(cache["openings"].data.val, last.upstream)
       /\ last.entities = cache["openings"].data.val
       /\ \A i \in DOMAIN last.upstream \ ActiveAt(last.upstream) :
             last.id # last.upstream[i].id

\* the query is the name of the inactive opening, which stands between two
\* active ones in the upstream list; the resolver returns an active one
C23_Witness ==
    /\ ResolveDone /\ last.resolver = "opening"
    /\ last.query = InactiveOpening.name
    /\ Len(last.entities) >= 2 /\ Len(last.upstream) > Len(last.entities)
    /\ last.id # NoId /\ last.id # InactiveOpening.id

----------------------------------------------------------------------------
(* Properties of the job-description snapshot *)

\* C24: every entry of a job-descriptions snapshot, stored or returned, is an
\* opening whose plain-text job description (the job_description of the entry)
\* is at least 10 characters long.
C24_JobDescriptionAtLeastTen ==
    /\ cache["job_descriptions"].data.some
         => \A i \in DOMAIN cache["job_descriptions"].data.val :
               cache["job_descriptions"].data.val[i].job_description >= JD_MIN_LEN
    /\ (FetchDone /\ last.kind = "job_descriptions")
         => \A i \in DOMAIN last.ret : last.ret[i].job_description >= JD_MIN_LEN

----------------------------------------------------------------------------
(* Properties of the offer-letter lookup *)

\* an offer-letter lookup by opening and candidate name has ended
OfferLookupDone == pc = "done" /\ last.op = "offer_letter"

\* the candidates of the opening that are in an offer stage
InOfferStage ==
    { i \in DOMAIN last.upstream : last.upstream[i].stage_name \in OFFER_STAGES }

\* C25: an offer-letter lookup by opening and candidate name only resolves to
\* a candidate whose stage_name is 'Offered' or 'Hired'; when the opening has
\* no candidate in those stages the lookup ends not found.
C25_OfferStagesOnly ==
    OfferLookupDone
    => /\ last.outcome = "found"
            => \E i \in InOfferStage : last.upstream[i].id = last.id
       /\ InOfferStage = {} => last.outcome # "found"

\* the handler of src/app.py, which passes the allow-list, keeps to the offer stages
AppOfferStagesOnly ==
    (OfferLookupDone /\ last.handler = "get_offer_letter_by_candidate")
    => /\ last.outcome = "found"
            => \E i \in InOfferStage : last.upstream[i].id = last.id
       /\ InOfferStage = {} => last.outcome # "found"

----------------------------------------------------------------------------
(* Age of what a cache hit returns *)

\* C26: staleness bound, also when fetches overlap: the snapshot a cache hit
\* returns at time t was read from the upstream no earlier than t - 300,
\* because the timestamp of every stored entry was taken before the request
\* that produced its data was sent.
C26_StalenessBound ==
    /\ [](\A k \in Kinds :
            cache[k].data.some => cache[k].timestamp <= fetchedAt[k])
    /\ [][\A c \in Callers :
            HitStep(c)
            => /\ last'[c].ret = cache[last'[c].kind].data.val
               /\ last'[c].at - fetchedAt[last'[c].kind] <= CACHE_TTL]_vars

\* a hit taken half a TTL after the request that produced the snapshot, the
\* snapshot being the one written by the other caller
C26_Witness ==
    \E c, d \in Callers :
        /\ pc[c] = "done" /\ last[c].outcome = "hit" /\ last[c].ret # <<>>
        /\ last[c].at - fetchedAt[last[c].kind] = TickStep
        /\ pc[d] = "done" /\ last[d].latest /\ last[d].kind = last[c].kind
        /\ last[d].sent = fetchedAt[last[c].kind]

----------------------------------------------------------------------------
(* The entity a resolver returns *)

\* the entities of the pool that carry the returned id
Returned == { i \in DOMAIN last.entities : last.entities[i].id = last.id }

\* the positions of a name among the scored names
ScoredAs(name) == { k \in DOMAIN ScoredNames : ScoredNames[k] = name }

\* C27: a non-null id returned by a resolver is the id of an entity of the pool
\* the resolver was given (the matched name, where returned, is that entity's
\* name), and on a fuzzy accept that entity is one whose display name attained
\* the best score, the score reported: the best index points into a list built
\* with the same exclusion of empty names as the list of scored names.
C27_ReturnedEntityInPool ==
    (ResolveDone /\ last.id # NoId)
    => /\ Returned # {}
       /\ \A i \in Returned :
            /\ last.name.some => last.name.val = last.entities[i].name
            /\ last.path = "fuzzy_accept"
                 => LET sims == ScoredSims
                    IN \E k \in ScoredAs(last.entities[i].name) :
                          /\ k \in BestScoring(sims)
                          /\ Score(sims[k]) = last.score

\* a fuzzy accept of a candidate or test that comes after an entity without a
\* name: the best index counts the named entities only
C27_Witness ==
    /\ ResolveDone /\ last.path = "fuzzy_accept" /\ last.resolver # "opening"
    /\ \E i \in Returned : \E j \in 1..(i - 1) : ~HasName(last.entities[j])

----------------------------------------------------------------------------
(* The timestamp of an entry over time *)

----------------------------------------------------------------------------
(* Ownership of the cache entries *)

\* the kinds whose fetcher the call recorded in l runs
FetchersOf(l) ==
    CASE l.op = "fetch" -> {l.kind}
      [] l.op = "resolve" -> IF l.resolver = "opening" THEN {"openings"} ELSE {}
      [] l.op = "tool" -> {"openings", "job_descriptions"}
      [] OTHER -> {}

\* C29: the cache always holds exactly the keys openings, job_descriptions and
\* users_info; an entry changes only by being replaced as a whole (new data
\* stamped with the time of the call) by the fetcher of its own kind, run
\* directly or by the resolver or tool that calls it; a fetch of one kind
\* leaves the entries of the other kinds unchanged; the candidate and test
\* resolvers change no entry.
C29_EntriesOwnedByFetchers ==
    [][/\ DOMAIN cache = Kinds /\ DOMAIN cache' = Kinds
       /\ \A k \in Kinds :
            cache'[k] # cache[k]
            => /\ pc = "idle" /\ pc' = "done"
               /\ k \in FetchersOf(last')
               /\ cache'[k].data.some /\ cache'[k].timestamp = now
               /\ last'.op = "fetch" => cache'[k] = Entry(Some(last'.ret), now)]_vars

\* the tool has refreshed the expired entries of openings and of job
\* descriptions while the user directory, stored earlier, is as it was
C29_Witness ==
    /\ pc = "done" /\ last.op = "tool" /\ last.outcome = "job_description"
    /\ now >= CACHE_TTL
    /\ cache["openings"].timestamp = now /\ cache["job_descriptions"].timestamp = now
    /\ cache["users_info"].data.some /\ cache["users_info"].timestamp = 0

----------------------------------------------------------------------------
(* C30: stage-name resolution and the order of list(set(...)) *)

\* the stage choice of the recorded call, had the set iterated in order o
ChoiceUnder(o) == MatchingStage(last.stage_name, o)

SameChoice(a, b) == a.filter = b.filter /\ a.stage = b.stage

\* C30: for fixed upstream candidates and a fixed stage_name query,
\* get_candidates_for_opening selects the same matching stage whatever order
\* the set of observed stage names is iterated in, also when two distinct
\* stage names tie for the best score.
C30_StageChoiceOrderIndependent ==
    (last.op = "list_candidates" /\ last.path \notin {"raise", "empty"}) =>
        \A o \in Orderings(ObservedStages(last.upstream)) :
            SameChoice(ChoiceUnder(o), last.matching)

====
